---- MODULE Spec2Model ----
(***************************************************************************)
(* Lume: the organizer engine (MoveFile / AtomicMove), the GUI batch       *)
(* worker that drives it, and the LITE command-line program, over one      *)
(* shared model of the file system.                                        *)
(*                                                                         *)
(* Strings that the code inspects character by character (folder-name      *)
(* segments) are sequences of one-character strings.  File contents are    *)
(* sequences of bytes; a content's size is its length and its MD5 sum is   *)
(* Digest.                                                                 *)
(***************************************************************************)
EXTENDS Integers, Sequences, FiniteSets, TLC

(***************************************************************************)
(* Bounds of the model.                                                    *)
(***************************************************************************)
\* batches (GUI StartOrganizing / CLI runs) started in one behaviour
MaxBatches == 2
\* injected I/O failures in one behaviour
MaxFaults == 1

(***************************************************************************)
(* Program constants.                                                      *)
(***************************************************************************)
\* ResolveConflict: for i := 1; i < 10000; i++
ConflictLimit == 10000
\* SanitizeFolderName: if len(name) > 100 { return name[:100] }
MaxNameLen == 100
\* GUI: MaxFilesLimit = 10000
MaxFilesLimit == 10000
\* GUI: MaxErrorsDisplay = 10
MaxErrorsDisplay == 10

(***************************************************************************)
(* Character strings.  A string is the sequence of its bytes, as in Go:    *)
(* len and slicing count bytes.  An ASCII character is one byte, written   *)
(* as itself; "C3", "A9" are the two bytes of the character e-acute.       *)
(***************************************************************************)
LowerLetters == <<"a","b","c","d","e","f","g","h","i","j","k","l","m",
                  "n","o","p","q","r","s","t","u","v","w","x","y","z">>
UpperLetters == <<"A","B","C","D","E","F","G","H","I","J","K","L","M",
                  "N","O","P","Q","R","S","T","U","V","W","X","Y","Z">>

\* strings.ToUpper, one character
UpperChar(c) ==
    IF \E i \in 1..26 : LowerLetters[i] = c
    THEN UpperLetters[CHOOSE i \in 1..26 : LowerLetters[i] = c]
    ELSE c

\* strings.ToUpper
ToUpper(s) == [i \in 1..Len(s) |-> UpperChar(s[i])]

\* unicode.IsSpace on the characters the model uses
IsSpace(c) == c \in {" ", "\t", "\n", "\r"}

\* strings.TrimSpace
TrimSpace(s) ==
    LET keep == {i \in 1..Len(s) : ~IsSpace(s[i])}
    IN  IF keep = {} THEN <<>>
        ELSE LET lo == CHOOSE i \in keep : \A j \in keep : i <= j
                 hi == CHOOSE i \in keep : \A j \in keep : j <= i
             IN  SubSeq(s, lo, hi)

\* invalidChars := `<>:"/\|?*.`
InvalidChars == {"<", ">", ":", "\"", "/", "\\", "|", "?", "*", "."}

\* a reserved map without entries
ReservedNamesOff == {}

\* the reserved map of SanitizeFolderName
ReservedNames == { <<"C","O","N">>, <<"P","R","N">>, <<"A","U","X">>,
                   <<"N","U","L">>, <<"C","O","M","1">>, <<"L","P","T","1">> }

StrUnknown == <<"U","n","k","n","o","w","n">>
StrSafe == <<"_","s","a","f","e">>
StrOtherImports == <<"O","t","h","e","r","_","I","m","p","o","r","t","s">>
StrOtherSorted == <<"O","t","h","e","r","_","S","o","r","t","e","d">>

\* organizer.SanitizeFolderName
SanitizeFolderName(name0) ==
    LET name == TrimSpace(name0)
    IN  IF name = <<>> \/ name = <<".">> \/ name = <<".", ".">>
        THEN StrUnknown
        ELSE LET repl == [i \in 1..Len(name) |->
                            IF name[i] \in InvalidChars THEN "_" ELSE name[i]]
             IN  IF ToUpper(repl) \in ReservedNames
                 THEN repl \o StrSafe
                 ELSE IF Len(repl) > MaxNameLen
                      THEN SubSeq(repl, 1, MaxNameLen)
                      ELSE repl

(***************************************************************************)
(* Files.  A path is a directory (a sequence of segments), and a file name *)
(* split as ResolveConflict splits it: the stem, the numeric suffixes      *)
(* "_i" appended so far, and the extension.                                *)
(***************************************************************************)
ContentA == <<1, 2>>
ContentB == <<1, 3>>
\* what Lookup returns for a path that holds no file
NoFile == <<-1>>

\* what a copy interrupted part-way leaves at the destination
Partial(c) == SubSeq(c, 1, Len(c) - 1)

\* os.FileInfo.Size
Size(c) == Len(c)

RECURSIVE DigestFrom(_, _, _)
DigestFrom(c, i, h) ==
    IF i > Len(c) THEN h
    ELSE DigestFrom(c, i + 1, (h * 7 + c[i] + 1) % 251)

\* md5.New / io.Copy / hex.EncodeToString: the sum of a content
Digest(c) == DigestFrom(c, 1, 0)

StrYear == <<"2","0","2","2">>
StrMonth == <<"0","5">>
StrCamera == <<"C","a","m","e","r","a">>
StrPixel == <<"P","i","x","e","l"," ","6">>

MkPath(d, st, sf, e) == [dir |-> d, stem |-> st, sfx |-> sf, ext |-> e]

\* filepath.Join(dir, filename)
Join(d, fname) == MkPath(d, fname.stem, fname.sfx, fname.ext)

\* filepath.Base(path)
Base(p) == [stem |-> p.stem, sfx |-> p.sfx, ext |-> p.ext]

\* the two candidate files: the same file name in two source folders
SrcF1 == MkPath(<<"src", "A">>, "IMG_0001", <<>>, ".jpg")
SrcF2 == MkPath(<<"src", "B">>, "IMG_0001", <<>>, ".jpg")
SrcPaths == {SrcF1, SrcF2}

\* fmt.Sprintf("%s_%d%s", base, i, ext)
Suffixed(p, i) == [p EXCEPT !.sfx = Append(@, i)]

\* the pre-existing siblings path_1 .. path_n of the destination slot
InBulk(n, slot, p) ==
    /\ p.dir = slot.dir /\ p.stem = slot.stem /\ p.ext = slot.ext
    /\ Len(p.sfx) = Len(slot.sfx) + 1
    /\ SubSeq(p.sfx, 1, Len(slot.sfx)) = slot.sfx
    /\ p.sfx[Len(p.sfx)] \in 1..n

(***************************************************************************)
(* State.                                                                  *)
(***************************************************************************)
VARIABLES
    prog,           \* which program this behaviour runs: "gui" or "cli"
    fs,             \* the files written or removed so far: path -> content
    bulk,           \* slot_1 .. slot_n existed before the program started
    faults,         \* I/O failures injected so far
    batches,        \* batches started so far
    up,             \* GUI: the process is running
    TargetFolder,   \* LumeUI.TargetFolder ("" = not selected)
    FilesToMove,    \* LumeUI.FilesToMove
    FileCount,      \* LumeUI.FileCount
    isProcessing,   \* LumeUI.isProcessing
    cancelled,      \* the batch context is Done
    stats,          \* Config.Stats
    wpc,            \* GUI worker goroutine: where it stands
    wl,             \* worker: wl, the snapshot of FilesToMove
    idx,            \* worker: i + 1
    successCount,   \* worker: successCount
    res,            \* worker: res
    cur,            \* the FileInfo being moved
    dst,            \* finalPath / targetPath handed to the move
    sh,             \* AtomicMove: sh, the source hash before the move
    viaCopy,        \* the rename failed, the copy fallback runs
    outcome,        \* how the last MoveFile / CLI move step ended
    cpc,            \* CLI: where main stands ("off" = not running)
    todo,           \* CLI: files filepath.Walk has still to visit
    success,        \* CLI: success
    errors,         \* CLI: errors
    folderChecked,  \* CheckWritability passed for TargetFolder in this process
    fn,             \* the last call of a library function: its input and result
    srcPre,         \* history: what the source held when its move began
    dstPre,         \* history: what dst held when it was chosen
    stopped,        \* history: a run was stopped by a signal or an interrupt
    stray,          \* history: the last move stopped with both files whole
    processed1      \* history: the source paths the first batch handled

vars == << prog, fs, bulk, faults, batches, up, TargetFolder, FilesToMove,
           FileCount, isProcessing, cancelled, stats, wpc, wl, idx,
           successCount, res, cur, dst, sh, viaCopy, outcome, cpc, todo,
           success, errors, folderChecked, fn, srcPre, dstPre, stopped,
           stray, processed1 >>

guiVars == << up, TargetFolder, FilesToMove, FileCount, isProcessing,
              cancelled, stats, wpc, wl, idx, successCount, res >>
cliVars == << cpc, todo, success, errors >>
moveVars == << cur, dst, sh, viaCopy, outcome, srcPre, dstPre >>

NoPath == MkPath(<<>>, "", <<>>, "")
NoInfo == [Path |-> NoPath, Filename |-> Base(NoPath), Size |-> 0,
           Year |-> <<>>, Month |-> <<>>, Device |-> <<>>, Source |-> <<>>]
NoStray == [src |-> NoPath, dst |-> NoPath]
NoCall == [op |-> "", in |-> <<>>, out |-> <<>>, n |-> 0]

(***************************************************************************)
(* The file system: os.Stat, os.Rename, os.Remove, os.Create + io.Copy.    *)
(***************************************************************************)
TargetRoot == "dest"

\* a category label that is the sanitized device label and nothing else
CategoryLabelOff(info) == SanitizeFolderName(info.Device)

\* MoveFile: the category label (lines 135-146)
CategoryLabel(info) ==
    LET device0 == SanitizeFolderName(info.Device)
        device1 == IF info.Source # <<>> /\ info.Source # StrOtherImports
                   THEN IF info.Device = StrUnknown \/ info.Device = <<>>
                        THEN SanitizeFolderName(info.Source)
                        ELSE SanitizeFolderName(info.Source \o <<"_">> \o info.Device)
                   ELSE device0
    IN  IF device1 = StrUnknown \/ device1 = <<>>
        THEN StrOtherSorted ELSE device1

\* a target directory without the category folder
TargetDirOff(info, targetBase) == <<targetBase, info.Year, info.Month>>

\* MoveFile: targetDir (line 148)
TargetDir(info, targetBase) ==
    <<targetBase, SanitizeFolderName(info.Year),
      SanitizeFolderName(info.Month), CategoryLabel(info)>>

\* CLI: targetDir := filepath.Join(dst, year, month)
CliTargetDir(info, targetBase) == <<targetBase, info.Year, info.Month>>

\* the metadata both candidate files carry
SlotInfo == [NoInfo EXCEPT !.Year = StrYear, !.Month = StrMonth,
                           !.Device = StrPixel, !.Source = StrCamera]

\* the destination path both candidate files compete for, per program
SlotGui == Join(TargetDir(SlotInfo, TargetRoot), Base(SrcF1))
SlotCli == Join(CliTargetDir(SlotInfo, TargetRoot), Base(SrcF1))
Slot(pg) == IF pg = "gui" THEN SlotGui ELSE SlotCli

\* the content at path p, NoFile if there is none
Lookup(f, p) ==
    IF p \in DOMAIN f THEN f[p]
    ELSE IF InBulk(bulk.n, bulk.slot, p) THEN ContentB ELSE NoFile

\* os.Stat(p) returns err == nil
Exists(f, p) == Lookup(f, p) # NoFile

Write(f, p, c) == [q \in DOMAIN f \cup {p} |-> IF q = p THEN c ELSE f[q]]

\* a removal that leaves the file where it is
RemoveKeep(f, p) == f

\* os.Remove(p)
Remove(f, p) ==
    IF InBulk(bulk.n, bulk.slot, p) THEN Write(f, p, NoFile)
    ELSE [q \in DOMAIN f \ {p} |-> f[q]]

\* os.Rename(a, b): b is replaced if it exists
Rename(f, a, b) == Write(Remove(f, a), b, Lookup(f, a))

\* os.Rename returns nil: folder src/A lies on the destination's volume,
\* folder src/B on another volume, from where a rename is rejected
RenameWorks(a) == a.dir = SrcF1.dir

\* metadata.GetFileHash / fileHash: fails when the file cannot be opened or read
GetFileHash(f, p, ioFail) ==
    IF ioFail \/ ~Exists(f, p) THEN [err |-> TRUE, sum |-> -1]
    ELSE [err |-> FALSE, sum |-> Digest(Lookup(f, p))]

\* var SupportedExtensions / supportedExt
SupportedExtensions == {".jpg", ".jpeg", ".png", ".webp", ".heic", ".tiff",
                        ".mp4", ".mov", ".avi"}

\* metadata.GetFileInfo: the candidate files carry the capture date
\* 2022:05, the device model "Pixel 6", and a name holding "img_"
GetFileInfo(f, p) ==
    IF ~Exists(f, p) \/ p.ext \notin SupportedExtensions
    THEN [err |-> TRUE, info |-> NoInfo]
    ELSE [err |-> FALSE,
          info |-> [Path |-> p, Filename |-> Base(p),
                    Size |-> Size(Lookup(f, p)),
                    Year |-> StrYear, Month |-> StrMonth,
                    Device |-> StrPixel, Source |-> StrCamera]]

\* a verification that accepts every pair of hashes
HashMismatchOff(a, b) == FALSE

\* sh != th in AtomicMove; srcHash != dstHash in the CLI
HashMismatch(a, b) == a # b

\* a duplicate check that reports every pair as different
IsDuplicateOff(f, p1, p2, ioFail) == [dup |-> FALSE, err |-> FALSE]

\* organizer.IsDuplicate: sizes first, then the two hashes
IsDuplicate(f, p1, p2, ioFail) ==
    IF ~Exists(f, p1) \/ ~Exists(f, p2) \/ ioFail = "stat"
    THEN [dup |-> FALSE, err |-> TRUE]
    ELSE IF Size(Lookup(f, p1)) # Size(Lookup(f, p2))
         THEN [dup |-> FALSE, err |-> FALSE]
         ELSE LET h1 == GetFileHash(f, p1, ioFail = "hash")
                  h2 == GetFileHash(f, p2, FALSE)
              IN  IF h1.err \/ h2.err THEN [dup |-> FALSE, err |-> TRUE]
                  ELSE [dup |-> h1.sum = h2.sum, err |-> FALSE]

\* CLI isDuplicate: e1 == nil && e2 == nil && h1 == h2
CliIsDuplicate(f, p1, p2, ioFail) ==
    LET h1 == GetFileHash(f, p1, ioFail)
        h2 == GetFileHash(f, p2, FALSE)
    IN  ~h1.err /\ ~h2.err /\ h1.sum = h2.sum

\* a loop that passes over the numbered siblings without looking at them
NextProbeOff(f, path, i) == IF i < bulk.n THEN bulk.n + 1 ELSE i + 1

\* the loop of ResolveConflict passes over siblings that all exist: when
\* path_(i+1) .. path_bulk are untouched pre-existing files the next
\* index that can be free is bulk + 1
NextProbe(f, path, i) ==
    IF /\ path = bulk.slot /\ i < bulk.n
       /\ \A q \in DOMAIN f : ~InBulk(bulk.n, path, q)
    THEN bulk.n + 1
    ELSE i + 1

RECURSIVE Probe(_, _, _)
Probe(f, path, i) ==
    IF i >= ConflictLimit THEN path
    ELSE IF ~Exists(f, Suffixed(path, i)) THEN Suffixed(path, i)
    ELSE Probe(f, path, NextProbe(f, path, i))

\* a resolver that keeps the colliding path
ResolveConflictOff(f, path) == path

\* organizer.ResolveConflict / CLI resolveConflict: the first i in
\* 1 .. ConflictLimit-1 whose path does not exist, else the path itself
ResolveConflict(f, path) == Probe(f, path, 1)

(***************************************************************************)
(* Initial states: both candidates exist; the destination slot is empty,   *)
(* holds an identical or a different file, or holds a different file and   *)
(* all its suffixed siblings.                                              *)
(***************************************************************************)
InitDest == { [slot |-> NoFile, n |-> 0], [slot |-> ContentB, n |-> 0],
              [slot |-> ContentB, n |-> ConflictLimit - 1] }

Init ==
    /\ prog \in {"gui", "cli"}
    /\ \E c2 \in {ContentA, ContentB}, d \in InitDest :
        /\ bulk = [slot |-> Slot(prog), n |-> d.n]
        /\ fs = IF d.slot = NoFile
                THEN (SrcF1 :> ContentA) @@ (SrcF2 :> c2)
                ELSE (SrcF1 :> ContentA) @@ (SrcF2 :> c2) @@ (Slot(prog) :> d.slot)
    /\ faults = 0
    /\ batches = 0
    /\ up = (prog = "gui")
    /\ TargetFolder = ""
    /\ FilesToMove = <<>>
    /\ FileCount = 0
    /\ isProcessing = FALSE
    /\ cancelled = TRUE
    /\ stats = [TotalFiles |-> 0, TotalSize |-> 0, TotalOrganized |-> 0]
    /\ wpc = "idle"
    /\ wl = <<>>
    /\ idx = 0
    /\ successCount = 0
    /\ res = <<>>
    /\ cur = NoInfo
    /\ dst = NoPath
    /\ sh = -1
    /\ viaCopy = FALSE
    /\ outcome = ""
    /\ cpc = "off"
    /\ todo = <<>>
    /\ success = 0
    /\ errors = 0
    /\ folderChecked = FALSE
    /\ fn = NoCall
    /\ srcPre = NoFile
    /\ dstPre = NoFile
    /\ stopped = FALSE
    /\ stray = NoStray
    /\ processed1 = {}

(***************************************************************************)
(* GUI: the event handlers of LumeUI.                                      *)
(***************************************************************************)
CanFail == faults < MaxFaults

\* validator.IsPathSafe: no ".." in the path
IsPathSafe(p) == \A i \in 1..Len(p.dir) : p.dir[i] # ".."

\* what a stop of the process leaves for the next run to find: both files
\* whole after a completed copy whose source was not yet removed
StrayAt(f, copied) ==
    IF copied /\ Exists(f, cur.Path) /\ Lookup(f, dst) = Lookup(f, cur.Path)
    THEN [src |-> cur.Path, dst |-> dst]
    ELSE stray

\* LumeUI.SelectFolder: CheckWritability fails or the folder is taken
SelectFolder ==
    /\ prog = "gui" /\ up /\ ~isProcessing
    /\ \E writable \in BOOLEAN :
        /\ TargetFolder' = IF writable THEN TargetRoot ELSE TargetFolder
        /\ folderChecked' = (writable \/ folderChecked)
    /\ UNCHANGED << prog, fs, bulk, faults, batches, up, FilesToMove, FileCount,
                    isProcessing, cancelled, stats, wpc, wl, idx, successCount,
                    res, cliVars, moveVars, fn, stopped, stray, processed1 >>

\* a drop handler that does not look at isProcessing
DropAllowedOff == TRUE

\* HandleDrop: if ui.isProcessing { return }
DropAllowed == ~isProcessing

\* a queue without a limit
AtLimitOff(count) == FALSE

\* HandleDrop: if ui.FileCount >= MaxFilesLimit { ...; break }
AtLimit(count) == count >= MaxFilesLimit

\* HandleDrop: for _, p := range ps { ... }, from the i-th path on; the
\* loop stops at the limit, passes over unsafe paths, paths GetFileInfo
\* rejects and paths whose folder is the target, and appends the others
RECURSIVE DropLoop(_, _, _, _, _, _)
DropLoop(f, ps, i, queue, count, target) ==
    IF i > Len(ps) \/ AtLimit(count)
    THEN [queue |-> queue, count |-> count]
    ELSE LET p == ps[i]
             gi == GetFileInfo(f, p)
         IN  IF \/ ~IsPathSafe(p) \/ gi.err
                \/ (Len(p.dir) = 1 /\ p.dir[1] = target)
             THEN DropLoop(f, ps, i + 1, queue, count, target)
             ELSE DropLoop(f, ps, i + 1, Append(queue, gi.info), count + 1,
                           target)

\* LumeUI.HandleDrop, one dropped path (a path that is not yet in the queue)
HandleDrop ==
    /\ prog = "gui" /\ up /\ DropAllowed
    /\ \E p \in SrcPaths :
        /\ \A i \in 1..Len(FilesToMove) : FilesToMove[i].Path # p
        /\ LET r == DropLoop(fs, <<p>>, 1, FilesToMove, FileCount, TargetFolder)
           IN  /\ FilesToMove' = r.queue
               /\ FileCount' = r.count
    /\ UNCHANGED << prog, fs, bulk, faults, batches, up, TargetFolder,
                    isProcessing, cancelled, stats, wpc, wl, idx, successCount,
                    res, cliVars, moveVars, fn, folderChecked, stopped, stray, processed1 >>

\* LumeUI.StartOrganizing up to the go statement
StartOrganizing ==
    /\ prog = "gui" /\ up
    /\ TargetFolder # "" /\ Len(FilesToMove) > 0 /\ ~isProcessing
    /\ batches < MaxBatches
    /\ \E enoughSpace \in BOOLEAN :
        IF enoughSpace
        THEN /\ isProcessing' = TRUE
             /\ cancelled' = FALSE
             /\ wpc' = "snap"
             /\ batches' = batches + 1
        ELSE UNCHANGED << isProcessing, cancelled, wpc, batches >>
    /\ UNCHANGED << prog, fs, bulk, faults, up, TargetFolder, FilesToMove,
                    FileCount, stats, wl, idx, successCount, res, cliVars,
                    moveVars, fn, folderChecked, stopped, stray, processed1 >>

\* LumeUI.CancelOrganizing
CancelOrganizing ==
    /\ prog = "gui" /\ up /\ isProcessing /\ ~cancelled
    /\ cancelled' = TRUE
    /\ UNCHANGED << prog, fs, bulk, faults, batches, up, TargetFolder,
                    FilesToMove, FileCount, isProcessing, stats, wpc, wl, idx,
                    successCount, res, cliVars, moveVars, fn, folderChecked, stopped, stray, processed1 >>

\* the goroutine's and the callback's locals are gone once it has ended
ClearMove ==
    /\ cur' = NoInfo /\ dst' = NoPath /\ sh' = -1 /\ viaCopy' = FALSE
    /\ outcome' = "" /\ srcPre' = NoFile /\ dstPre' = NoFile

ClearWorker ==
    /\ wpc' = "idle" /\ wl' = <<>> /\ idx' = 0
    /\ successCount' = 0 /\ res' = <<>>

\* main: the signal handler goroutine: cancelFunc(), then os.Exit(0); the
\* process and with it the window, the queue and the worker are gone
ShutdownSignal ==
    /\ prog = "gui" /\ up /\ isProcessing
    /\ up' = FALSE
    /\ stopped' = TRUE
    /\ stray' = StrayAt(fs, wpc = "am_remove")
    /\ FilesToMove' = <<>> /\ FileCount' = 0
    /\ isProcessing' = FALSE /\ cancelled' = TRUE
    /\ ClearWorker /\ ClearMove
    /\ UNCHANGED << prog, fs, bulk, faults, batches, TargetFolder, stats,
                    cliVars, processed1, fn, folderChecked >>

\* the program is started again: main builds a new LumeUI; TargetFolder is
\* read back from the saved configuration (line 277), without a check
Launch ==
    /\ prog = "gui" /\ ~up /\ batches < MaxBatches
    /\ up' = TRUE
    /\ folderChecked' = FALSE
    /\ UNCHANGED << prog, fs, bulk, faults, batches, TargetFolder, FilesToMove,
                    FileCount, isProcessing, cancelled, stats, wpc, wl, idx,
                    successCount, res, cliVars, moveVars, fn, stopped, stray, processed1 >>

(***************************************************************************)
(* GUI: the batch worker goroutine of StartOrganizing.                     *)
(***************************************************************************)
\* wl, target := ui.FilesToMove, ui.TargetFolder; total, res, successCount
WorkerSnapshot ==
    /\ prog = "gui" /\ up /\ wpc = "snap"
    /\ wl' = FilesToMove /\ idx' = 1 /\ successCount' = 0 /\ res' = <<>>
    /\ wpc' = "loop"
    /\ UNCHANGED << prog, fs, bulk, faults, batches, up, TargetFolder,
                    FilesToMove, FileCount, isProcessing, cancelled, stats,
                    cliVars, moveVars, fn, folderChecked, stopped, stray, processed1 >>

\* a select that never finds the context done
CtxDoneOff == FALSE

\* select { case <-ctx.Done(): the case is ready once cancel() was called
CtxDone == cancelled

\* for i, info := range wl { select { case <-ctx.Done(): goto finish; default: ...
WorkerSelect ==
    /\ prog = "gui" /\ up /\ wpc = "loop"
    /\ IF idx > Len(wl) \/ CtxDone
       THEN /\ wpc' = "finish"
            /\ cur' = NoInfo /\ srcPre' = NoFile
       ELSE /\ wpc' = "mv_start"
            /\ cur' = wl[idx] /\ srcPre' = Lookup(fs, wl[idx].Path)
    /\ outcome' = "" /\ dst' = NoPath /\ viaCopy' = FALSE
    /\ dstPre' = NoFile /\ sh' = -1
    /\ UNCHANGED << prog, fs, bulk, faults, batches, up, TargetFolder,
                    FilesToMove, FileCount, isProcessing, cancelled, stats, wl,
                    idx, successCount, res, cliVars, fn, folderChecked, stopped, stray, processed1 >>

\* MoveFile returns: the worker to "record", with how the call ended
Return(how) ==
    /\ outcome' = how
    /\ wpc' = "record"

\* organizer.MoveFile up to the call of AtomicMove (lines 133-162)
MoveStart ==
    /\ prog = "gui" /\ up /\ wpc = "mv_start"
    /\ LET finalPath == Join(TargetDir(cur, TargetFolder), cur.Filename)
       IN  \/ \* os.MkdirAll fails
              /\ CanFail /\ faults' = faults + 1
              /\ Return("mkdir")
              /\ UNCHANGED << dst, dstPre >>
           \/ \* no file of that name at the destination
              /\ ~Exists(fs, finalPath)
              /\ dst' = finalPath /\ dstPre' = NoFile
              /\ wpc' = "am_hash"
              /\ UNCHANGED << faults, outcome >>
           \/ \* a file of that name exists: IsDuplicate, then ResolveConflict
              /\ Exists(fs, finalPath)
              /\ \E ioFail \in {"none", "stat", "hash"} :
                  /\ ioFail # "none" => CanFail
                  /\ faults' = IF ioFail = "none" THEN faults ELSE faults + 1
                  /\ LET d == IsDuplicate(fs, cur.Path, finalPath, ioFail)
                         np == ResolveConflict(fs, finalPath)
                     IN  IF ~d.err /\ d.dup
                         THEN /\ Return("dup")
                              /\ UNCHANGED << dst, dstPre >>
                         ELSE /\ dst' = np /\ dstPre' = Lookup(fs, np)
                              /\ wpc' = "am_hash"
                              /\ UNCHANGED outcome
    /\ UNCHANGED << prog, fs, bulk, batches, up, TargetFolder, FilesToMove,
                    FileCount, isProcessing, cancelled, stats, wl, idx,
                    successCount, res, cliVars, cur, sh, viaCopy, srcPre,
                    fn, folderChecked, stopped, stray, processed1 >>

\* AtomicMove: sh, err := metadata.GetFileHash(src)
AmHash ==
    /\ prog = "gui" /\ up /\ wpc = "am_hash"
    /\ \E ioFail \in BOOLEAN :
        /\ ioFail => CanFail
        /\ faults' = IF ioFail THEN faults + 1 ELSE faults
        /\ LET h == GetFileHash(fs, cur.Path, ioFail)
           IN  IF h.err
               THEN Return("prehash") /\ UNCHANGED sh
               ELSE sh' = h.sum /\ wpc' = "am_rename" /\ UNCHANGED outcome
    /\ UNCHANGED << prog, fs, bulk, batches, up, TargetFolder, FilesToMove,
                    FileCount, isProcessing, cancelled, stats, wl, idx,
                    successCount, res, cliVars, cur, dst, viaCopy, srcPre, dstPre,
                    fn, folderChecked, stopped, stray, processed1 >>

\* AtomicMove: os.Rename(src, dst) succeeds, or fails (another volume)
AmRename ==
    /\ prog = "gui" /\ up /\ wpc = "am_rename"
    /\ IF RenameWorks(cur.Path)
       THEN /\ fs' = Rename(fs, cur.Path, dst)
            /\ viaCopy' = FALSE
            /\ wpc' = "am_verify"
       ELSE /\ viaCopy' = TRUE
            /\ wpc' = "am_copy"
            /\ UNCHANGED fs
    /\ UNCHANGED << prog, bulk, faults, batches, up, TargetFolder, FilesToMove,
                    FileCount, isProcessing, cancelled, stats, wl, idx,
                    successCount, res, cliVars, cur, dst, sh, outcome, srcPre, dstPre,
                    fn, folderChecked, stopped, stray, processed1 >>

\* CopyFile: os.Open, os.Create and the first part of io.Copy
AmCopy ==
    /\ prog = "gui" /\ up /\ wpc = "am_copy"
    /\ \/ /\ CanFail /\ faults' = faults + 1
          /\ Return("copy")
          /\ UNCHANGED fs
       \/ /\ fs' = Write(fs, dst, Partial(Lookup(fs, cur.Path)))
          /\ wpc' = "am_copy2"
          /\ UNCHANGED << faults, outcome >>
    /\ UNCHANGED << prog, bulk, batches, up, TargetFolder, FilesToMove,
                    FileCount, isProcessing, cancelled, stats, wl, idx,
                    successCount, res, cliVars, cur, dst, sh, viaCopy, srcPre, dstPre,
                    fn, folderChecked, stopped, stray, processed1 >>

\* CopyFile: the rest of io.Copy and out.Sync()
AmCopyRest ==
    /\ prog = "gui" /\ up /\ wpc = "am_copy2"
    /\ \/ /\ CanFail /\ faults' = faults + 1
          /\ Return("copy")
          /\ UNCHANGED fs
       \/ /\ fs' = Write(fs, dst, Lookup(fs, cur.Path))
          /\ wpc' = "am_remove"
          /\ UNCHANGED << faults, outcome >>
    /\ UNCHANGED << prog, bulk, batches, up, TargetFolder, FilesToMove,
                    FileCount, isProcessing, cancelled, stats, wl, idx,
                    successCount, res, cliVars, cur, dst, sh, viaCopy, srcPre, dstPre,
                    fn, folderChecked, stopped, stray, processed1 >>

\* AtomicMove line 198: os.Remove(src) right after the copy; a failure is logged
AmRemove ==
    /\ prog = "gui" /\ up /\ wpc = "am_remove"
    /\ \/ /\ CanFail /\ faults' = faults + 1
          /\ UNCHANGED fs
       \/ /\ fs' = Remove(fs, cur.Path)
          /\ UNCHANGED faults
    /\ wpc' = "am_verify"
    /\ UNCHANGED << prog, bulk, batches, up, TargetFolder, FilesToMove,
                    FileCount, isProcessing, cancelled, stats, wl, idx,
                    successCount, res, cliVars, moveVars, fn, folderChecked, stopped, stray, processed1 >>

\* AtomicMove lines 200-202: th, the comparison, os.Remove(dst) on mismatch
AmVerify ==
    /\ prog = "gui" /\ up /\ wpc = "am_verify"
    /\ \E ioFail \in BOOLEAN :
        /\ ioFail => CanFail
        /\ faults' = IF ioFail THEN faults + 1 ELSE faults
        /\ LET th == GetFileHash(fs, dst, ioFail)
           IN  IF th.err
               THEN Return("posthash") /\ UNCHANGED fs
               ELSE IF HashMismatch(sh, th.sum)
                    THEN /\ Return("integrity")
                         /\ \E rmFail \in BOOLEAN :   \* the error of os.Remove is dropped
                              fs' = IF rmFail THEN fs ELSE Remove(fs, dst)
                    ELSE Return("moved") /\ UNCHANGED fs
    /\ UNCHANGED << prog, bulk, batches, up, TargetFolder, FilesToMove,
                    FileCount, isProcessing, cancelled, stats, wl, idx,
                    successCount, res, cliVars, cur, dst, sh, viaCopy, srcPre, dstPre,
                    fn, folderChecked, stopped, stray, processed1 >>

\* MoveFile returned nil
MoveOk(how) == how \in {"moved", "dup"}

\* the worker's bookkeeping after organizer.MoveFile returned
WorkerRecord ==
    /\ prog = "gui" /\ up /\ wpc = "record"
    /\ successCount' = IF MoveOk(outcome) THEN successCount + 1 ELSE successCount
    /\ res' = Append(res, [Success |-> MoveOk(outcome), File |-> cur.Filename,
                           Size |-> cur.Size, Error |-> outcome])
    /\ idx' = idx + 1
    /\ wpc' = "loop"
    /\ processed1' = IF batches = 1 THEN processed1 \cup {cur.Path} ELSE processed1
    /\ UNCHANGED << prog, fs, bulk, faults, batches, up, TargetFolder,
                    FilesToMove, FileCount, isProcessing, cancelled, stats, wl,
                    cliVars, moveVars, fn, folderChecked, stopped, stray >>

RECURSIVE SumSizes(_)
SumSizes(r) ==
    IF r = <<>> THEN 0
    ELSE (IF Head(r).Success THEN Head(r).Size ELSE 0) + SumSizes(Tail(r))

\* finish: the lifetime statistics
WorkerFinish ==
    /\ prog = "gui" /\ up /\ wpc = "finish"
    /\ stats' = IF successCount > 0
                THEN [TotalFiles |-> stats.TotalFiles + successCount,
                      TotalSize |-> stats.TotalSize + SumSizes(res),
                      TotalOrganized |-> stats.TotalOrganized + 1]
                ELSE stats
    /\ wpc' = "report"
    /\ UNCHANGED << prog, fs, bulk, faults, batches, up, TargetFolder,
                    FilesToMove, FileCount, isProcessing, cancelled, wl, idx,
                    successCount, res, cliVars, moveVars, fn, folderChecked, stopped, stray, processed1 >>

\* the Synchronize callback: the report, then the queue and the flag are
\* reset; the goroutine ends (defer cancel())
WorkerReport ==
    /\ prog = "gui" /\ up /\ wpc = "report"
    /\ FilesToMove' = <<>> /\ FileCount' = 0 /\ isProcessing' = FALSE
    /\ cancelled' = TRUE
    /\ ClearWorker /\ ClearMove
    /\ UNCHANGED << prog, fs, bulk, faults, batches, up, TargetFolder, stats,
                    cliVars, fn, folderChecked, stopped, stray, processed1 >>

\* the bytes that reached dst are not the bytes that were read (a storage or
\* transfer error between the write and the verification)
StorageFault ==
    /\ \/ prog = "gui" /\ up /\ wpc = "am_verify"
       \/ prog = "cli" /\ cpc = "c_verify"
    /\ CanFail /\ faults' = faults + 1
    /\ Exists(fs, dst)
    /\ fs' = Write(fs, dst, IF Lookup(fs, dst) = ContentA THEN ContentB ELSE ContentA)
    /\ UNCHANGED << prog, bulk, batches, guiVars, cliVars, moveVars, fn, folderChecked, stopped, stray,
                    processed1 >>

(***************************************************************************)
(* The LITE command-line program: main and its filepath.Walk callback.     *)
(***************************************************************************)
\* the files filepath.Walk visits, in lexical order
WalkList(f) ==
    LET a == IF Exists(f, SrcF1) /\ SrcF1.ext \in SupportedExtensions
             THEN <<SrcF1>> ELSE <<>>
        b == IF Exists(f, SrcF2) /\ SrcF2.ext \in SupportedExtensions
             THEN <<SrcF2>> ELSE <<>>
    IN  a \o b

\* os.FileInfo of a walked file: its name, and the year and month of ModTime
CliInfo(f, p) ==
    [Path |-> p, Filename |-> Base(p), Size |-> Size(Lookup(f, p)),
     Year |-> StrYear, Month |-> StrMonth, Device |-> <<>>, Source |-> <<>>]

\* the callback returns: how the file ended, and the two counters
CliReturn(how) ==
    /\ outcome' = how
    /\ cpc' = "c_next"
    /\ success' = IF how = "moved" THEN success + 1 ELSE success
    /\ errors' = IF how \in {"mkdir", "copy", "verify"} THEN errors + 1 ELSE errors

\* main lines 20-60: the arguments are valid, the walk starts
CliMain ==
    /\ prog = "cli" /\ cpc = "off" /\ batches < MaxBatches
    /\ batches' = batches + 1
    /\ todo' = WalkList(fs)
    /\ success' = 0 /\ errors' = 0
    /\ cpc' = "c_next"
    /\ UNCHANGED << prog, fs, bulk, faults, guiVars, moveVars, fn, folderChecked, stopped, stray, processed1 >>

\* filepath.Walk calls the callback for the next file, or the walk is over:
\* main prints the tally and the process ends
CliNext ==
    /\ prog = "cli" /\ cpc = "c_next"
    /\ processed1' = IF batches = 1 /\ cur # NoInfo
                     THEN processed1 \cup {cur.Path} ELSE processed1
    /\ IF todo = <<>>
       THEN /\ cpc' = "off"
            /\ success' = 0 /\ errors' = 0
            /\ cur' = NoInfo /\ srcPre' = NoFile
            /\ UNCHANGED todo
       ELSE /\ cpc' = "c_start"
            /\ cur' = CliInfo(fs, Head(todo)) /\ srcPre' = Lookup(fs, Head(todo))
            /\ todo' = Tail(todo)
            /\ UNCHANGED << success, errors >>
    /\ outcome' = "" /\ dst' = NoPath /\ viaCopy' = FALSE
    /\ dstPre' = NoFile /\ sh' = -1
    /\ UNCHANGED << prog, fs, bulk, faults, batches, guiVars, fn, folderChecked, stopped, stray >>

\* the callback, lines 77-98: MkdirAll, the duplicate check, resolveConflict
CliStart ==
    /\ prog = "cli" /\ cpc = "c_start"
    /\ LET targetPath == Join(CliTargetDir(cur, TargetRoot), cur.Filename)
       IN  \/ /\ CanFail /\ faults' = faults + 1
              /\ CliReturn("mkdir")
              /\ UNCHANGED << dst, dstPre >>
           \/ /\ ~Exists(fs, targetPath)
              /\ dst' = targetPath /\ dstPre' = NoFile
              /\ cpc' = "c_rename"
              /\ UNCHANGED << faults, outcome, success, errors >>
           \/ /\ Exists(fs, targetPath)
              /\ \E ioFail \in BOOLEAN :
                  /\ ioFail => CanFail
                  /\ faults' = IF ioFail THEN faults + 1 ELSE faults
                  /\ LET np == ResolveConflict(fs, targetPath)
                     IN  IF CliIsDuplicate(fs, cur.Path, targetPath, ioFail)
                         THEN /\ CliReturn("dup")
                              /\ UNCHANGED << dst, dstPre >>
                         ELSE /\ dst' = np /\ dstPre' = Lookup(fs, np)
                              /\ cpc' = "c_rename"
                              /\ UNCHANGED << outcome, success, errors >>
    /\ UNCHANGED << prog, fs, bulk, batches, guiVars, todo, cur, sh, viaCopy,
                    srcPre, fn, folderChecked, stopped, stray, processed1 >>

\* line 101: os.Rename(path, targetPath)
CliRename ==
    /\ prog = "cli" /\ cpc = "c_rename"
    /\ IF RenameWorks(cur.Path)
       THEN /\ fs' = Rename(fs, cur.Path, dst)
            /\ viaCopy' = FALSE
            /\ CliReturn("moved")
       ELSE /\ viaCopy' = TRUE
            /\ cpc' = "c_copy"
            /\ UNCHANGED << fs, outcome, success, errors >>
    /\ UNCHANGED << prog, bulk, faults, batches, guiVars, todo, cur, dst, sh,
                    srcPre, dstPre, fn, folderChecked, stopped, stray, processed1 >>

\* copyFile: os.Open, os.Create and the first part of io.Copy
CliCopy ==
    /\ prog = "cli" /\ cpc = "c_copy"
    /\ \/ /\ CanFail /\ faults' = faults + 1
          /\ CliReturn("copy")
          /\ UNCHANGED fs
       \/ /\ fs' = Write(fs, dst, Partial(Lookup(fs, cur.Path)))
          /\ cpc' = "c_copy2"
          /\ UNCHANGED << faults, outcome, success, errors >>
    /\ UNCHANGED << prog, bulk, batches, guiVars, todo, cur, dst, sh, viaCopy,
                    srcPre, dstPre, fn, folderChecked, stopped, stray, processed1 >>

\* copyFile: the rest of io.Copy and out.Sync()
CliCopyRest ==
    /\ prog = "cli" /\ cpc = "c_copy2"
    /\ \/ /\ CanFail /\ faults' = faults + 1
          /\ CliReturn("copy")
          /\ UNCHANGED fs
       \/ /\ fs' = Write(fs, dst, Lookup(fs, cur.Path))
          /\ cpc' = "c_verify"
          /\ UNCHANGED << faults, outcome, success, errors >>
    /\ UNCHANGED << prog, bulk, batches, guiVars, todo, cur, dst, sh, viaCopy,
                    srcPre, dstPre, fn, folderChecked, stopped, stray, processed1 >>

\* a verification that only looks at the two errors
CliVerifyFailedOff(srcHash, dstHash) == srcHash.err \/ dstHash.err

\* line 112: err1 != nil || err2 != nil || srcHash != dstHash
CliVerifyFailed(srcHash, dstHash) ==
    srcHash.err \/ dstHash.err \/ HashMismatch(srcHash.sum, dstHash.sum)

\* lines 110-119: both hashes; on an error or a mismatch os.Remove(targetPath)
CliVerify ==
    /\ prog = "cli" /\ cpc = "c_verify"
    /\ \E ioFail \in BOOLEAN :
        /\ ioFail => CanFail
        /\ faults' = IF ioFail THEN faults + 1 ELSE faults
        /\ LET srcHash == GetFileHash(fs, cur.Path, ioFail)
               dstHash == GetFileHash(fs, dst, FALSE)
           IN  IF CliVerifyFailed(srcHash, dstHash)
               THEN /\ \E rmFail \in BOOLEAN :   \* lines 114-116: only a warning
                         fs' = IF rmFail THEN fs ELSE Remove(fs, dst)
                    /\ CliReturn("verify")
                    /\ UNCHANGED sh
               ELSE /\ sh' = srcHash.sum
                    /\ cpc' = "c_remove"
                    /\ UNCHANGED << fs, outcome, success, errors >>
    /\ UNCHANGED << prog, bulk, batches, guiVars, todo, cur, dst, viaCopy,
                    srcPre, dstPre, fn, folderChecked, stopped, stray, processed1 >>

\* lines 121-128: os.Remove(path); the move counts as a success either way
CliRemove ==
    /\ prog = "cli" /\ cpc = "c_remove"
    /\ \/ /\ CanFail /\ faults' = faults + 1
          /\ UNCHANGED fs
       \/ /\ fs' = Remove(fs, cur.Path)
          /\ UNCHANGED faults
    /\ CliReturn("moved")
    /\ UNCHANGED << prog, bulk, batches, guiVars, todo, cur, dst, sh, viaCopy,
                    srcPre, dstPre, fn, folderChecked, stopped, stray, processed1 >>

\* the process is stopped (Ctrl-C, kill, power loss) while it runs
CliInterrupt ==
    /\ prog = "cli" /\ cpc # "off"
    /\ cpc' = "off"
    /\ stopped' = TRUE
    /\ stray' = StrayAt(fs, cpc \in {"c_verify", "c_remove"})
    /\ todo' = <<>> /\ success' = 0 /\ errors' = 0
    /\ ClearMove
    /\ UNCHANGED << prog, fs, bulk, faults, batches, guiVars, processed1, fn,
                    folderChecked >>

Next ==
    \/ SelectFolder \/ HandleDrop \/ StartOrganizing \/ CancelOrganizing
    \/ ShutdownSignal \/ Launch
    \/ WorkerSnapshot \/ WorkerSelect \/ MoveStart \/ AmHash \/ AmRename
    \/ AmCopy \/ AmCopyRest \/ AmRemove \/ AmVerify \/ WorkerRecord
    \/ WorkerFinish \/ WorkerReport \/ StorageFault
    \/ CliMain \/ CliNext \/ CliStart \/ CliRename \/ CliCopy \/ CliCopyRest
    \/ CliVerify \/ CliRemove \/ CliInterrupt

Spec == Init /\ [][Next]_vars


(***************************************************************************)
(* Properties of organizer.AtomicMove and organizer.MoveFile.              *)
(***************************************************************************)
\* the positions of the GUI worker inside organizer.MoveFile
MidMove == {"mv_start", "am_hash", "am_rename", "am_copy", "am_copy2",
            "am_remove", "am_verify"}

\* C1: on the copy path of AtomicMove the source is removed only after the
\* destination's hash was computed and found equal: while the comparison is
\* still ahead, the source holds what it held when the move began and the
\* destination file is in place.
C1_SourceKeptUntilVerified ==
    (prog = "gui" /\ viaCopy /\ wpc \in {"am_remove", "am_verify"})
        => /\ Lookup(fs, cur.Path) = srcPre
           /\ Exists(fs, dst)

\* C2: when AtomicMove returns the integrity error, the destination is gone
\* and the source is at its path with the content it had before the move.
C2_MismatchKeepsSource ==
    (prog = "gui" /\ wpc = "record" /\ outcome = "integrity")
        => /\ ~Exists(fs, dst)
           /\ Exists(fs, cur.Path)
           /\ Lookup(fs, cur.Path) = srcPre

\* C3: when MoveFile returns an error, the file is at its source path with
\* unchanged content; and the worker has called MoveFile once per file of
\* the batch it has passed.
C3_FailedFileUntouched ==
    prog = "gui" =>
        /\ (wpc = "record" /\ ~MoveOk(outcome))
               => (Exists(fs, cur.Path) /\ Lookup(fs, cur.Path) = srcPre)
        /\ wpc \in {"loop", "finish"} => Len(res) = idx - 1

\* C4: when AtomicMove returns nil, the destination exists and its hash is
\* the hash the source had before the call, whether or not the source could
\* be deleted after the copy.
C4_MovedIsVerified ==
    (prog = "gui" /\ wpc = "record" /\ outcome = "moved")
        => /\ Exists(fs, dst)
           /\ Digest(Lookup(fs, dst)) = Digest(srcPre)

\* C4: a copy-path move reported as a success whose source could not be
\* deleted and is still there
C4_Witness ==
    /\ prog = "gui" /\ wpc = "record" /\ outcome = "moved"
    /\ viaCopy /\ Exists(fs, cur.Path)
    /\ Lookup(fs, dst) = srcPre


(***************************************************************************)
(* Properties of the destination: conflicts and duplicates.                *)
(***************************************************************************)
\* MoveFile (GUI) or the CLI callback takes its first step for cur, up to
\* the duplicate check and the choice of the destination path
StartStep ==
    \/ prog = "gui" /\ wpc = "mv_start" /\ wpc' \in {"am_hash", "record"}
    \/ prog = "cli" /\ cpc = "c_start" /\ cpc' \in {"c_rename", "c_next"}

\* MoveFile or the CLI callback has returned for cur
Returned ==
    \/ prog = "gui" /\ wpc = "record"
    \/ prog = "cli" /\ cpc = "c_next" /\ cur # NoInfo

\* p lies under the destination folder
UnderDest(p) == p.dir # <<>> /\ p.dir[1] = TargetRoot

\* path_1 .. path_9999 all exist: they are the siblings that were there
\* from the start and none of them was removed, or each of them is found
AllTaken(f, path) ==
    IF path = bulk.slot /\ bulk.n >= ConflictLimit - 1
    THEN \A q \in DOMAIN f : InBulk(bulk.n, path, q) => f[q] # NoFile
    ELSE \A i \in 1..(ConflictLimit - 1) : Exists(f, Suffixed(path, i))

\* a step leaves every file under the destination at its path with its
\* content, except the file at dst when that file is fresh
KeepsDest(fresh) ==
    \A p \in DOMAIN fs \cup DOMAIN fs' :
        (UnderDest(p) /\ Exists(fs, p))
            => \/ Lookup(fs', p) = Lookup(fs, p)
               \/ p = dst /\ fresh

\* the path chosen beside an existing file is the first free suffixed one
FirstFree(path, chosen) ==
    /\ chosen.sfx # path.sfx
    /\ LET i == chosen.sfx[Len(chosen.sfx)]
       IN  /\ chosen = Suffixed(path, i)
           /\ ~Exists(fs, chosen)
           /\ \A j \in 1..(i - 1) : Exists(fs, Suffixed(path, j))

\* C5 as stated: no step overwrites, truncates or deletes a file that was
\* under the destination before the running call created it, and beside an
\* existing same-name file the new file goes to the first free suffixed
\* path (_1 first).
C5_ExistingFilesKept ==
    [][ /\ KeepsDest(dstPre = NoFile)
        /\ (StartStep /\ Exists(fs, bulk.slot) /\ dst' # NoPath)
               => FirstFree(bulk.slot, dst') ]_vars

\* C5, with the resolver's limit: the same, unless all 9999 suffixed paths
\* of the colliding name exist; then the move goes to the colliding path
\* itself and replaces the file there.
C5_ExistingFilesKeptBelowLimit ==
    [][ /\ KeepsDest(dstPre = NoFile \/ AllTaken(fs, dst))
        /\ (StartStep /\ Exists(fs, bulk.slot) /\ dst' # NoPath)
               => \/ FirstFree(bulk.slot, dst')
                  \/ dst' = bulk.slot /\ AllTaken(fs, bulk.slot) ]_vars

\* C5: a different file of the same name was at the destination, the new
\* file was moved to _1 and the existing file is as it was
C5_Witness ==
    /\ Returned /\ outcome = "moved"
    /\ dst = Suffixed(bulk.slot, 1) /\ Lookup(fs, dst) = ContentA
    /\ Lookup(fs, bulk.slot) = ContentB

\* C6: when the file at the computed destination is identical to the
\* source and the duplicate check runs without an I/O failure, the call
\* returns as a duplicate skip and changes no file: no rename, no copy, no
\* delete.
C6_DuplicateSkipped ==
    [][ ( /\ StartStep /\ faults' = faults
          /\ Exists(fs, bulk.slot)
          /\ Lookup(fs, bulk.slot) = Lookup(fs, cur.Path) )
        => /\ fs' = fs /\ outcome' = "dup" /\ dst' = NoPath
           /\ MoveOk(outcome') ]_vars

\* C6: of two identical files for the same slot the first was moved and
\* the second was skipped and is still at its source path
C6_Witness ==
    /\ prog = "gui" /\ wpc = "record" /\ outcome = "dup" /\ idx = 2
    /\ cur.Path = SrcF2 /\ Lookup(fs, SrcF2) = ContentA
    /\ ~Exists(fs, SrcF1) /\ Lookup(fs, bulk.slot) = ContentA

\* C7: a run was stopped when the destination copy of a file was complete
\* and the source not yet deleted; when a later run reaches that source,
\* both files being as the stop left them, the file is skipped as a
\* duplicate and no file is created, moved or removed.
C7_StraySourceSkipped ==
    [][ ( /\ StartStep /\ faults' = faults
          /\ stray # NoStray /\ cur.Path = stray.src
          /\ Exists(fs, stray.dst)
          /\ Lookup(fs, stray.dst) = Lookup(fs, stray.src) )
        => (fs' = fs /\ outcome' = "dup") ]_vars


(***************************************************************************)
(* Properties of whole runs: a second run, cancellation, the CLI path.     *)
(***************************************************************************)
\* the second batch runs, no run was stopped before, and every file it is
\* to handle was handled by the first batch: no new file was added
Rerun ==
    /\ batches = 2 /\ batches' = 2
    /\ ~stopped
    /\ prog = "gui" =>
          /\ isProcessing
          /\ \A i \in 1..Len(FilesToMove) : FilesToMove[i].Path \in processed1
    /\ prog = "cli" =>
          /\ cpc # "off"
          /\ \A i \in 1..Len(todo) : todo[i] \in processed1
          /\ cur.Path \in processed1 \cup {NoPath}

C9_CancelAtFileBoundary ==
    [][ (prog = "gui" /\ up /\ ~up') => wpc \notin MidMove ]_vars

\* the CLI callback's step makes the source file disappear
CliSourceGoes == Exists(fs, cur.Path) /\ ~Exists(fs', cur.Path)

\* the CLI's verification has just failed: the callback returns from it
CliVerifyFails == cpc = "c_verify" /\ cpc' = "c_next"

\* what holds on the CLI's copy path whatever becomes of the bad copy: the
\* hashes are taken of the complete copy, the source goes only at the
\* removal step after both hashes were equal, and after a failed
\* verification the source is as it was and the error is counted
CliCopyPath ==
    /\ (cpc # "c_verify" /\ cpc' = "c_verify")
           => Lookup(fs', dst) = Lookup(fs', cur.Path)
    /\ CliSourceGoes
           => /\ cpc = "c_remove"
              /\ Digest(Lookup(fs, dst)) = Digest(srcPre)
    /\ (cpc = "c_verify" /\ cpc' = "c_remove")
           => /\ Exists(fs, cur.Path) /\ Exists(fs, dst)
              /\ Digest(Lookup(fs, cur.Path)) = Digest(Lookup(fs, dst))
    /\ CliVerifyFails
           => /\ Lookup(fs', cur.Path) = srcPre
              /\ errors' = errors + 1 /\ success' = success

\* C10 as stated: on the CLI's copy path the source is removed only after
\* both hashes were computed and equal; otherwise the destination copy is
\* removed, the source stays and an error is counted.
C10_CliCopyVerified ==
    [][ (prog = "cli" /\ viaCopy)
        => /\ CliCopyPath
           /\ CliVerifyFails => ~Exists(fs', dst) ]_vars

\* C10, with the removal of the bad copy as the code does it: the same,
\* but after a failed verification the destination copy is removed or,
\* when os.Remove fails on it, left as it is.
C10_CliCopyVerifiedOrCopyLeft ==
    [][ (prog = "cli" /\ viaCopy)
        => /\ CliCopyPath
           /\ CliVerifyFails => (~Exists(fs', dst) \/ fs' = fs) ]_vars

\* C10: a copy whose verification failed: the copy was removed, the source
\* is in place and the error was counted
C10_Witness ==
    /\ prog = "cli" /\ viaCopy /\ cpc = "c_next" /\ outcome = "verify"
    /\ ~Exists(fs, dst) /\ Lookup(fs, cur.Path) = srcPre /\ errors >= 1


(***************************************************************************)
(* The library functions on their own.  SpecFs applies the functions that  *)
(* read the file system (ResolveConflict, IsDuplicate, isDuplicate) to a   *)
(* destination folder in which the slot, some of its numbered siblings and *)
(* gaps between them exist; nothing is running, so only fn changes.        *)
(***************************************************************************)
\* the largest sibling index at which the destination may have a gap
MaxHoles == 3

\* how many numbered siblings the destination slot starts with
FsBulk == {0, 1, 2, 3, ConflictLimit - 2, ConflictLimit - 1}

\* the contents a source file may hold: two of one size, one shorter
FsContents == {ContentA, ContentB, Partial(ContentA)}

\* no program is working: every variable a run would use is at rest
Idle ==
    /\ faults = 0 /\ batches = 0
    /\ up = (prog = "gui")
    /\ TargetFolder = "" /\ FilesToMove = <<>> /\ FileCount = 0
    /\ isProcessing = FALSE /\ cancelled = TRUE
    /\ stats = [TotalFiles |-> 0, TotalSize |-> 0, TotalOrganized |-> 0]
    /\ wpc = "idle" /\ wl = <<>> /\ idx = 0 /\ successCount = 0 /\ res = <<>>
    /\ cur = NoInfo /\ dst = NoPath /\ sh = -1 /\ viaCopy = FALSE
    /\ outcome = "" /\ cpc = "off" /\ todo = <<>> /\ success = 0 /\ errors = 0
    /\ folderChecked = FALSE
    /\ srcPre = NoFile /\ dstPre = NoFile /\ stopped = FALSE
    /\ stray = NoStray /\ processed1 = {}

\* a removed sibling: path_i of the bulk no longer exists
Holes(slot, H) == [q \in {Suffixed(slot, i) : i \in H} |-> NoFile]

InitFs ==
    /\ prog = "gui"
    /\ \E c2 \in FsContents, slotc \in {NoFile, ContentB}, n \in FsBulk :
       \E H \in SUBSET (1..(IF n < MaxHoles THEN n ELSE MaxHoles)) :
        /\ bulk = [slot |-> SlotGui, n |-> n]
        /\ fs = (SrcF1 :> ContentA) @@ (SrcF2 :> c2) @@ Holes(SlotGui, H)
                @@ (IF slotc = NoFile THEN << >> ELSE (SlotGui :> slotc))
    /\ fn = NoCall
    /\ Idle

\* the paths the file-system functions are applied to
FsPaths == {SrcF1, SrcF2, bulk.slot, Suffixed(bulk.slot, 1)}

FsQuiet == UNCHANGED << prog, fs, bulk, faults, batches, guiVars, cliVars,
                        moveVars, folderChecked, stopped, stray, processed1 >>

\* the number of os.Stat calls ResolveConflict makes: the loop index at
\* which it returns, or ConflictLimit - 1 when the loop runs out
RECURSIVE ProbeCount(_, _, _)
ProbeCount(f, path, i) ==
    IF i >= ConflictLimit THEN ConflictLimit - 1
    ELSE IF ~Exists(f, Suffixed(path, i)) THEN i
    ELSE ProbeCount(f, path, NextProbe(f, path, i))

\* the caller has used the result; the next call can be made
FnReturn ==
    /\ fn # NoCall
    /\ fn' = NoCall
    /\ FsQuiet

CallResolveConflict ==
    /\ fn = NoCall
    /\ \E path \in FsPaths :
        fn' = [op |-> "ResolveConflict", in |-> path,
               out |-> ResolveConflict(fs, path),
               n |-> ProbeCount(fs, path, 1)]
    /\ FsQuiet


\* C11: ResolveConflict(path) returns path_i for the smallest i in
\* 1 .. 9999 whose path does not exist, found at the i-th attempt; a path
\* that exists is returned only when all 9999 suffixed paths exist, and
\* then it is the original path, returned after exactly 9999 attempts.
C11_SmallestFreeSuffix ==
    fn.op = "ResolveConflict" =>
        \/ /\ fn.n \in 1..(ConflictLimit - 1)
           /\ fn.out = Suffixed(fn.in, fn.n)
           /\ ~Exists(fs, fn.out)
           /\ \A j \in 1..(fn.n - 1) : Exists(fs, Suffixed(fn.in, j))
        \/ /\ fn.out = fn.in
           /\ fn.n = ConflictLimit - 1
           /\ \A j \in 1..(ConflictLimit - 1) : Exists(fs, Suffixed(fn.in, j))

\* the resolver was applied to a slot whose sibling _1 exists, _2 was
\* removed and _3 exists, and it returned _2
C11_Witness ==
    /\ fn.op = "ResolveConflict"
    /\ fn.in = bulk.slot
    /\ Exists(fs, Suffixed(fn.in, 1))
    /\ Exists(fs, Suffixed(fn.in, 3))
    /\ fn.out = Suffixed(fn.in, 2)


\* the calls of metadata.GetFileHash that organizer.IsDuplicate makes:
\* none when a stat fails or the sizes differ, one when the first fails
HashCalls(f, p1, p2, ioFail) ==
    IF ~Exists(f, p1) \/ ~Exists(f, p2) \/ ioFail = "stat" THEN 0
    ELSE IF Size(Lookup(f, p1)) # Size(Lookup(f, p2)) THEN 0
    ELSE IF GetFileHash(f, p1, ioFail = "hash").err THEN 1 ELSE 2

\* the calls of fileHash that the CLI's isDuplicate makes: always both
CliHashCalls(f, p1, p2) == 1 + 1

CallIsDuplicate ==
    /\ fn = NoCall
    /\ \E p1 \in FsPaths, p2 \in FsPaths, ioFail \in {"none", "stat", "hash"} :
        fn' = [op |-> "IsDuplicate", in |-> <<p1, p2>>,
               out |-> IsDuplicate(fs, p1, p2, ioFail),
               n |-> HashCalls(fs, p1, p2, ioFail)]
    /\ FsQuiet

CallCliIsDuplicate ==
    /\ fn = NoCall
    /\ \E p1 \in FsPaths, p2 \in FsPaths, ioFail \in BOOLEAN :
        fn' = [op |-> "isDuplicate", in |-> <<p1, p2>>,
               out |-> [dup |-> CliIsDuplicate(fs, p1, p2, ioFail),
                        err |-> \/ GetFileHash(fs, p1, ioFail).err
                                \/ GetFileHash(fs, p2, FALSE).err],
               n |-> CliHashCalls(fs, p1, p2)]
    /\ FsQuiet

NextFs ==
    \/ CallResolveConflict \/ CallIsDuplicate \/ CallCliIsDuplicate
    \/ FnReturn

SpecFs == InitFs /\ [][NextFs]_vars

\* C12: the duplicate check compares sizes first: for two files of unequal
\* size it answers "not a duplicate" without computing any hash; for two
\* files of equal size it answers "duplicate" exactly when the hashes of
\* their contents are equal.
C12_SizesBeforeHashes ==
    (/\ fn.op \in {"IsDuplicate", "isDuplicate"}
     /\ Exists(fs, fn.in[1]) /\ Exists(fs, fn.in[2])
     /\ ~fn.out.err) =>
        IF Size(Lookup(fs, fn.in[1])) # Size(Lookup(fs, fn.in[2]))
        THEN ~fn.out.dup /\ fn.n = 0
        ELSE fn.out.dup <=> (Digest(Lookup(fs, fn.in[1]))
                               = Digest(Lookup(fs, fn.in[2])))


\* C13: after any batch, also one in which a copy failed part-way or the
\* verification failed, every file the engine created under the
\* destination root is byte-identical to the source file it was made from:
\* when a move has returned, a destination file that was not there before
\* the move holds what the source held.
C13_NoPartialCopyLeft ==
    (/\ Returned /\ dst # NoPath /\ UnderDest(dst)
     /\ dstPre = NoFile /\ Exists(fs, dst))
        => Lookup(fs, dst) = srcPre


\* C14: before any file of a batch is touched the target directory is
\* checked for writability and for free space, and a failed check aborts
\* the batch: a worker is started only for a target folder whose
\* writability check has passed in this process, and a step of
\* StartOrganizing that starts no worker leaves the queue and the
\* isProcessing flag as they were.
C14_PreflightBeforeBatch ==
    [][/\ (~isProcessing /\ isProcessing') => folderChecked
       /\ (StartOrganizing /\ wpc' = wpc)
              => UNCHANGED << FilesToMove, isProcessing, fs >>]_vars


\* where Scenario A's file belongs: <dest>/2022/05/Camera_Pixel 6/IMG_0001.jpg
ScenarioAPath ==
    MkPath(<< "dest", <<"2","0","2","2">>, <<"0","5">>,
              <<"C","a","m","e","r","a","_","P","i","x","e","l"," ","6">> >>,
           "IMG_0001", <<>>, ".jpg")

\* C15: when no file of the same name is at the destination, a successful
\* organizer.MoveFile places the file at
\* <targetRoot>/<year>/<month>/<category>/<filename> and at no other path:
\* the file with year 2022, month 05, source Camera, device "Pixel 6" and
\* name IMG_0001.jpg is sent to <dest>/2022/05/Camera_Pixel 6/IMG_0001.jpg,
\* no step of the move changes another path under the destination, and when
\* the move returns nil the file is there.
C15_PlacedAtComputedPath ==
    [][ /\ (/\ prog = "gui" /\ wpc = "mv_start" /\ wpc' = "am_hash"
            /\ ~Exists(fs, ScenarioAPath))
               => dst' = ScenarioAPath
        /\ (prog = "gui" /\ wpc \in MidMove /\ dst = ScenarioAPath)
               => /\ \A p \in DOMAIN fs \cup DOMAIN fs' :
                       (UnderDest(p) /\ p # dst)
                           => Lookup(fs', p) = Lookup(fs, p)
                  /\ (wpc' = "record" /\ outcome' = "moved")
                         => Lookup(fs', ScenarioAPath) = srcPre ]_vars

\* C15: the file of Scenario A was moved and is at the scenario's path
C15_Witness ==
    /\ prog = "gui" /\ wpc = "record" /\ outcome = "moved"
    /\ dst = ScenarioAPath /\ dstPre = NoFile
    /\ Lookup(fs, ScenarioAPath) = ContentA


(***************************************************************************)
(* SpecStr applies the functions on strings and metadata                   *)
(* (SanitizeFolderName, the category rule of MoveFile, DetectSource,       *)
(* GetFileInfo) to inputs drawn from bounded sets; the files are those of  *)
(* an untouched source folder and an empty destination.                    *)
(***************************************************************************)
InitStr ==
    /\ prog = "gui"
    /\ bulk = [slot |-> SlotGui, n |-> 0]
    /\ fs = (SrcF1 :> ContentA) @@ (SrcF2 :> ContentA)
    /\ fn = NoCall
    /\ Idle

StrWhatsApp == <<"W","h","a","t","s","A","p","p">>

\* the Source and Device labels the category rule is applied to
CatSources == {<<>>, StrOtherImports, StrCamera, StrWhatsApp, StrUnknown}
CatDevices == {<<>>, StrUnknown, StrPixel, <<".">>, <<"C","O","N">>,
               <<"u","n","k","n","o","w","n">>, <<"X",":","1">>}

CallCategoryLabel ==
    /\ fn = NoCall
    /\ \E src \in CatSources, dev \in CatDevices :
        fn' = [op |-> "CategoryLabel", in |-> <<src, dev>>,
               out |-> CategoryLabel([NoInfo EXCEPT !.Source = src,
                                                    !.Device = dev]),
               n |-> 0]
    /\ FsQuiet

\* the source label is a classification other than the generic fallback
KnownSource(src) == src # <<>> /\ src # StrOtherImports

\* the device label says something
Informative(dev) == dev # <<>> /\ dev # StrUnknown

\* "Other_Sorted" in place of an empty or "Unknown" label
OrSorted(label) ==
    IF label = <<>> \/ label = StrUnknown THEN StrOtherSorted ELSE label

\* C16 as stated: the category label is <source>_<device>, sanitized, when
\* the source is a known classification other than "Other_Imports" and the
\* device is informative; in every other case it is the device label alone;
\* an empty or "Unknown" result becomes "Other_Sorted", so the label is
\* never empty and never "Unknown".
C16_CategoryLabel ==
    fn.op = "CategoryLabel" =>
        LET src == fn.in[1]
            dev == fn.in[2]
        IN  /\ fn.out = OrSorted(
                   IF KnownSource(src) /\ Informative(dev)
                   THEN SanitizeFolderName(src \o <<"_">> \o dev)
                   ELSE SanitizeFolderName(dev))
            /\ fn.out # <<>> /\ fn.out # StrUnknown

\* C16, with the third case of the code: a known source whose device is
\* empty or "Unknown" gives the sanitized source label alone; only a file
\* without a known source gets the device label alone.
C16_CategoryLabelSourceAlone ==
    fn.op = "CategoryLabel" =>
        LET src == fn.in[1]
            dev == fn.in[2]
        IN  /\ (KnownSource(src) /\ Informative(dev))
                   => fn.out = OrSorted(SanitizeFolderName(src \o <<"_">> \o dev))
            /\ (KnownSource(src) /\ ~Informative(dev))
                   => fn.out = OrSorted(SanitizeFolderName(src))
            /\ ~KnownSource(src)
                   => fn.out = OrSorted(SanitizeFolderName(dev))
            /\ fn.out # <<>> /\ fn.out # StrUnknown

\* C16: a file classified as Camera whose device is "Unknown" got the
\* label "Camera"
C16_Witness ==
    /\ fn.op = "CategoryLabel"
    /\ fn.in = <<StrCamera, StrUnknown>>
    /\ fn.out = StrCamera


\* strings.ToLower, one character
LowerChar(c) ==
    IF \E i \in 1..26 : UpperLetters[i] = c
    THEN LowerLetters[CHOOSE i \in 1..26 : UpperLetters[i] = c]
    ELSE c

\* strings.ToLower
ToLower(s) == [i \in 1..Len(s) |-> LowerChar(s[i])]

\* strings.Contains
Contains(s, sub) ==
    \E k \in 0..(Len(s) - Len(sub)) : SubSeq(s, k + 1, k + Len(sub)) = sub

\* the patterns map of DetectSource, in the order it is written
SourcePatterns ==
    << [pattern |-> <<"w","h","a","t","s","a","p","p">>, source |-> <<"W","h","a","t","s","A","p","p">>],
       [pattern |-> <<"-","w","a">>, source |-> <<"W","h","a","t","s","A","p","p">>],
       [pattern |-> <<"t","e","l","e","g","r","a","m">>, source |-> <<"T","e","l","e","g","r","a","m">>],
       [pattern |-> <<"s","c","r","e","e","n","s","h","o","t">>, source |-> <<"S","c","r","e","e","n","s","h","o","t","s">>],
       [pattern |-> <<"e","k","r","a","n">>, source |-> <<"S","c","r","e","e","n","s","h","o","t","s">>],
       [pattern |-> <<"i","n","s","t","a","g","r","a","m">>, source |-> <<"I","n","s","t","a","g","r","a","m">>],
       [pattern |-> <<"i","g","_">>, source |-> <<"I","n","s","t","a","g","r","a","m">>],
       [pattern |-> <<"c","a","m","e","r","a">>, source |-> <<"C","a","m","e","r","a">>],
       [pattern |-> <<"d","c","i","m">>, source |-> <<"C","a","m","e","r","a">>],
       [pattern |-> <<"p","x","l","_">>, source |-> <<"C","a","m","e","r","a">>],
       [pattern |-> <<"i","m","g","_">>, source |-> <<"C","a","m","e","r","a">>],
       [pattern |-> <<"v","i","d","_">>, source |-> <<"C","a","m","e","r","a">>] >>

\* metadata.DetectSource: the labels a call can return.  patterns is a Go
\* map and the loop ranges over it, so the patterns are tried in an order
\* that differs from call to call: the label of any pattern that the name
\* contains can be the one returned
DetectSource(filename) ==
    LET lower == ToLower(TrimSpace(filename))
        hits == {i \in 1..Len(SourcePatterns) :
                    Contains(lower, SourcePatterns[i].pattern)}
    IN  IF hits = {} THEN {StrOtherImports}
        ELSE {SourcePatterns[i].source : i \in hits}

\* the most pieces a file name is put together from
MaxParts == 2

NamePieces ==
    { <<"w","h","a","t","s","a","p","p">>,
       <<"S","c","r","e","e","n","s","h","o","t">>,
       <<"I","M","G","_">>,
       <<"-","W","A">>,
       <<"T","e","l","e","g","r","a","m">>,
       <<"d","c","i","m">>,
       <<"x">>,
       <<" ">> }

RECURSIVE Names(_)
\* the file names of at most k pieces
Names(k) ==
    IF k = 0 THEN {<<>>}
    ELSE Names(k - 1) \cup {a \o b : a \in Names(k - 1), b \in NamePieces}

CallDetectSource ==
    /\ fn = NoCall
    /\ \E name \in Names(MaxParts) :
       \E label \in DetectSource(name) :
        fn' = [op |-> "DetectSource", in |-> name, out |-> label, n |-> 0]
    /\ FsQuiet

\* the label of the first rule, in the order of the table, whose pattern
\* the lower-cased, trimmed name contains
FirstRule(filename) ==
    LET lower == ToLower(TrimSpace(filename))
        hits == {i \in 1..Len(SourcePatterns) :
                    Contains(lower, SourcePatterns[i].pattern)}
    IN  IF hits = {} THEN StrOtherImports
        ELSE SourcePatterns[CHOOSE i \in hits : \A j \in hits : i <= j].source

\* C17: DetectSource is deterministic and order-based: for every file
\* name, also one that contains patterns of two labels, every call returns
\* the label of the first matching rule in the order of the table; a name
\* that matches no pattern yields "Other_Imports".
C17_FirstRuleWins ==
    fn.op = "DetectSource" => fn.out = FirstRule(fn.in)


\* the longest tail appended to an input of SanitizeFolderName
MaxTail == 2

SanWords ==
    { <<>>,
      <<".">>,
      <<".",".">>,
      <<"C","O","N">>,
      <<"c","o","n">>,
      <<"C","o","n">>,
      <<"P","R","N">>,
      <<"A","U","X">>,
      <<"N","U","L">>,
      <<"C","O","M","1">>,
      <<"L","P","T","1">>,
      <<"l","p","t","1">>,
      <<"C","O","M","2">>,
      <<"m","y","<","f","i","l","e",">">>,
      <<"f","o","l","d","e","r","/","p","a","t","h">>,
      <<"f","i","l","e",":","n","a","m","e">>,
      <<"t","r","i","m">>,
      <<"a">>,
      <<"q","\"","\\","|","?","*">> }

SanLeads == {<<>>, <<" ">>, <<" ", " ">>}

\* unit repeated n times
Rep(unit, n) == [i \in 1..(n * Len(unit)) |-> unit[((i - 1) % Len(unit)) + 1]]

\* runs of "b" and of e-acute around the length limit
SanPads ==
    {Rep(<<"b">>, n) : n \in {0, MaxNameLen - 1, MaxNameLen, MaxNameLen + 1,
                              MaxNameLen + 50}}
    \cup {Rep(<<"C3", "A9">>, n) : n \in {MaxNameLen \div 2,
                                          (MaxNameLen \div 2) + 1}}

RECURSIVE SanTails(_)
\* the tails of at most k characters
SanTails(k) ==
    IF k = 0 THEN {<<>>}
    ELSE SanTails(k - 1)
         \cup {t \o <<c>> : t \in SanTails(k - 1), c \in {" ", ".", "a", "<"}}

CallSanitizeFolderName ==
    /\ fn = NoCall
    /\ \E lead \in SanLeads, w \in SanWords, pad \in SanPads,
          tail \in SanTails(MaxTail) :
        LET x == lead \o w \o pad \o tail
        IN  fn' = [op |-> "SanitizeFolderName", in |-> x,
                   out |-> SanitizeFolderName(x), n |-> 0]
    /\ FsQuiet

\* C18: SanitizeFolderName is idempotent: applied to its own result it
\* returns that result, also for strings longer than the truncation limit
\* and strings with whitespace at any position.
C18_SanitizeIdempotent ==
    fn.op = "SanitizeFolderName" => SanitizeFolderName(fn.out) = fn.out

RECURSIVE Strip(_)
\* s without the whitespace around it
Strip(s) ==
    IF s = <<>> THEN s
    ELSE IF IsSpace(Head(s)) THEN Strip(Tail(s))
    ELSE IF IsSpace(s[Len(s)]) THEN Strip(SubSeq(s, 1, Len(s) - 1))
    ELSE s

\* the reference up to the truncation: final says the value is returned
\* as it is ("Unknown", or a reserved name with "_safe")
RefSanitize(x) ==
    LET t == Strip(x)
        r == [i \in 1..Len(t) |->
                IF t[i] \in {"<", ">", ":", "\"", "/", "\\", "|", "?", "*", "."}
                THEN "_" ELSE t[i]]
        reserved == \E w \in { <<"C","O","N">>, <<"P","R","N">>, <<"A","U","X">>,
                               <<"N","U","L">>, <<"C","O","M","1">>,
                               <<"L","P","T","1">> } :
                        /\ Len(w) = Len(r)
                        /\ \A i \in 1..Len(w) : r[i] \in {w[i], LowerChar(w[i])}
    IN  IF t = <<>> \/ t = <<".">> \/ t = <<".", ".">>
        THEN [final |-> TRUE, val |-> <<"U","n","k","n","o","w","n">>]
        ELSE IF reserved
             THEN [final |-> TRUE, val |-> r \o <<"_","s","a","f","e">>]
             ELSE [final |-> FALSE, val |-> r]

RECURSIVE CharPrefix(_, _, _)
\* how many bytes the first `left` characters of r[i..] take, plus i - 1:
\* a byte "A9" continues the character before it
CharPrefix(r, i, left) ==
    IF i > Len(r) THEN Len(r)
    ELSE IF r[i] # "A9" /\ left = 0 THEN i - 1
    ELSE CharPrefix(r, i + 1, IF r[i] # "A9" THEN left - 1 ELSE left)

\* C19 as stated: for every input x, SanitizeFolderName(x) equals the
\* reference: trim the whitespace around x; "", "." and ".." give
\* "Unknown"; each of < > : " / \ | ? * . becomes "_"; a result that is,
\* in any letter case, one of CON, PRN, AUX, NUL, COM1, LPT1 is returned
\* with "_safe" appended; otherwise the result is returned truncated to at
\* most 100 characters.
C19_EqualsReference ==
    fn.op = "SanitizeFolderName" =>
        LET b == RefSanitize(fn.in)
        IN  fn.out = IF b.final THEN b.val
                     ELSE SubSeq(b.val, 1, CharPrefix(b.val, 1, MaxNameLen))

\* C19, with the unit of the truncation: the same reference, the result
\* cut after its first 100 bytes, which can be fewer than 100 characters
\* and can end inside a character of several bytes.
C19_EqualsReferenceBytes ==
    fn.op = "SanitizeFolderName" =>
        LET b == RefSanitize(fn.in)
        IN  fn.out = IF b.final \/ Len(b.val) <= MaxNameLen THEN b.val
                     ELSE SubSeq(b.val, 1, MaxNameLen)

\* C19: an input of "a" and 50 e-acute, 101 bytes, came back cut to 100
\* bytes, the last of them the first half of a character
C19_Witness ==
    /\ fn.op = "SanitizeFolderName"
    /\ Len(fn.in) = MaxNameLen + 1 /\ fn.in[1] = "a"
    /\ Len(fn.out) = MaxNameLen /\ fn.out[MaxNameLen] = "C3"


DigitChars == <<"0","1","2","3","4","5","6","7","8","9">>

IsDigit(c) == \E i \in 1..10 : DigitChars[i] = c

DigitVal(c) == (CHOOSE i \in 1..10 : DigitChars[i] = c) - 1

RECURSIVE Atoi(_)
\* the number a sequence of digits stands for
Atoi(s) ==
    IF s = <<>> THEN 0
    ELSE Atoi(SubSeq(s, 1, Len(s) - 1)) * 10 + DigitVal(s[Len(s)])

RECURSIVE Itoa(_)
\* fmt.Sprintf("%d", n) for n >= 0: as many digits as n has
Itoa(n) ==
    IF n < 10 THEN <<DigitChars[n + 1]>>
    ELSE Itoa(n \div 10) \o <<DigitChars[(n % 10) + 1]>>

\* fmt.Sprintf("%02d", n) for n >= 0
Pad2(n) == IF n < 10 THEN <<"0">> \o Itoa(n) ELSE Itoa(n)

NoDate == [ok |-> FALSE, year |-> 0, month |-> 0]

\* time.Parse("2006:01:02 15:04:05", s): four digits of year, two of each
\* other field, the separators in place, every field in its range (the
\* day against 31: the inputs use days 00, 01 and 20)
ParseExifDate(s) ==
    LET num(a, b) == Atoi(SubSeq(s, a, b))
        wellFormed ==
            /\ Len(s) = 19
            /\ \A i \in {1,2,3,4,6,7,9,10,12,13,15,16,18,19} : IsDigit(s[i])
            /\ s[5] = ":" /\ s[8] = ":" /\ s[11] = " "
            /\ s[14] = ":" /\ s[17] = ":"
    IN  IF wellFormed /\ num(6, 7) \in 1..12 /\ num(9, 10) \in 1..31
           /\ num(12, 13) <= 23 /\ num(15, 16) <= 59 /\ num(18, 19) <= 59
        THEN [ok |-> TRUE, year |-> num(1, 4), month |-> num(6, 7)]
        ELSE NoDate

\* metadata.ExtractExif on the tags a file embeds: DateTimeOriginal (empty
\* when the tag is absent) and Model; err when the file has no EXIF block
ExtractExif(exif) ==
    IF exif.err THEN [err |-> TRUE, date |-> NoDate, device |-> <<>>]
    ELSE [err |-> FALSE, date |-> ParseExifDate(exif.date),
          device |-> TrimSpace(exif.model)]

\* isImage in GetFileInfo
ImageExtensions == {".jpg", ".jpeg", ".png", ".heic", ".tiff"}

\* metadata.GetFileInfo from line 278 on, for a file that exists: mod is
\* its ModTime, created what GetCreationTime returns, source the label
\* DetectSource returned
FileInfoOf(ext, mod, exif, created, source) ==
    IF ext \notin SupportedExtensions
    THEN [err |-> TRUE, Date |-> NoDate, Year |-> <<>>, Month |-> <<>>,
          Device |-> <<>>, Source |-> <<>>]
    ELSE LET ex == ExtractExif(exif)
             date == IF ext \in ImageExtensions
                     THEN IF ~ex.err /\ ex.date.ok THEN ex.date ELSE mod
                     ELSE IF created.ok THEN created ELSE mod
             device == IF ext \in ImageExtensions /\ ~ex.err /\ ex.device # <<>>
                       THEN ex.device ELSE StrUnknown
         IN  [err |-> FALSE, Date |-> date,
              Year |-> Itoa(date.year), Month |-> Pad2(date.month),
              Device |-> device, Source |-> source]

\* the DateTimeOriginal values a file may embed; <<>> is no tag at all
ExifDates ==
    { <<>>,
      <<"2","0","2","2",":","0","5",":","0","1"," ","1","0",":","0","0",":","0","0">>,
      <<"0","9","9","9",":","0","5",":","0","1"," ","1","0",":","0","0",":","0","0">>,
      <<"0","0","0","0",":","0","0",":","0","0"," ","0","0",":","0","0",":","0","0">>,
      <<"2","0","2","3",":","1","3",":","0","1"," ","1","0",":","0","0",":","0","0">>,
      <<"2","0","2","3","-","1","0","-","2","0"," ","1","5",":","0","4",":","0","5">> }

ExifModels == {<<>>, StrPixel, <<" ", " ">>, <<" ">> \o StrPixel \o <<" ">>}

ExifBlocks ==
    {[err |-> TRUE, date |-> <<>>, model |-> <<>>]}
    \cup {[err |-> FALSE, date |-> d, model |-> m] :
              d \in ExifDates, m \in ExifModels}

\* the times the file system reports for a file
FileTimes == {[ok |-> TRUE, year |-> 2024, month |-> 3],
              [ok |-> TRUE, year |-> 1601, month |-> 1],
              [ok |-> TRUE, year |-> 1970, month |-> 12]}

CallGetFileInfo ==
    /\ fn = NoCall
    /\ \E ext \in {".jpg", ".mp4", ".txt"},
          name \in {<<"I","M","G","_","0","0","0","1">>, <<"x">>},
          mod \in FileTimes, exif \in ExifBlocks,
          created \in FileTimes \cup {NoDate} :
       \E source \in DetectSource(name) :
        fn' = [op |-> "GetFileInfo",
               in |-> [ext |-> ext, name |-> name, mod |-> mod,
                       exif |-> exif, created |-> created],
               out |-> FileInfoOf(ext, mod, exif, created, source),
               n |-> 0]
    /\ FsQuiet

\* the most failed files a reported batch has
MaxFailed == 12

RECURSIVE ErrorReport(_, _, _)
\* the loop of line 323 over res: one line per failed result, lim counted
\* up after each, and "...see log" and break once lim > MaxErrorsDisplay
ErrorReport(r, lim, report) ==
    IF r = <<>> THEN report
    ELSE IF Head(r).Success THEN ErrorReport(Tail(r), lim, report)
    ELSE IF lim + 1 > MaxErrorsDisplay
         THEN report \o <<"- file: error", "...see log">>
         ELSE ErrorReport(Tail(r), lim + 1, Append(report, "- file: error"))

OkResult == [Success |-> TRUE, File |-> Base(SrcF1), Size |-> 2, Error |-> "moved"]
FailedResult == [Success |-> FALSE, File |-> Base(SrcF2), Size |-> 2, Error |-> "copy"]

\* the results of a batch: k failures, with a success before and after
Results(k, before, after) ==
    (IF before THEN <<OkResult>> ELSE <<>>)
    \o [i \in 1..k |-> FailedResult]
    \o (IF after THEN <<OkResult>> ELSE <<>>)

CallErrorReport ==
    /\ fn = NoCall
    /\ \E k \in 0..MaxFailed, before \in BOOLEAN, after \in BOOLEAN :
        LET r == Results(k, before, after)
        IN  fn' = [op |-> "ErrorReport", in |-> r,
                   out |-> ErrorReport(r, 0, <<>>), n |-> k]
    /\ FsQuiet

RECURSIVE SplitPath(_, _, _)
\* the segments of path s between its separators, s read from position i
\* with seg the segment begun so far
SplitPath(s, i, seg) ==
    IF i > Len(s) THEN <<seg>>
    ELSE IF s[i] = "/" THEN <<seg>> \o SplitPath(s, i + 1, <<>>)
    ELSE SplitPath(s, i + 1, Append(seg, s[i]))

RECURSIVE CleanSegs(_, _)
\* filepath.Clean on the segments of a rooted path: empty and "." segments
\* go, ".." takes the segment before it, and is dropped at the root
CleanSegs(segs, out) ==
    IF segs = <<>> THEN out
    ELSE LET h == Head(segs)
         IN  IF h = <<>> \/ h = <<".">> THEN CleanSegs(Tail(segs), out)
             ELSE IF h = <<".", ".">>
                  THEN CleanSegs(Tail(segs),
                                 IF out = <<>> THEN out
                                 ELSE SubSeq(out, 1, Len(out) - 1))
                  ELSE CleanSegs(Tail(segs), Append(out, h))

RECURSIVE RenderPath(_)
\* the path string of a rooted sequence of segments: the root is "/"
\* itself, any other path has no separator at its end
RenderPath(segs) ==
    IF segs = <<>> THEN <<"/">>
    ELSE IF Len(segs) = 1 THEN <<"/">> \o segs[1]
    ELSE RenderPath(SubSeq(segs, 1, Len(segs) - 1)) \o <<"/">> \o segs[Len(segs)]

\* the segments of filepath.Abs(s) in working directory cwd
AbsSegs(cwd, s) ==
    IF s # <<>> /\ s[1] = "/" THEN CleanSegs(SplitPath(s, 1, <<>>), <<>>)
    ELSE CleanSegs(cwd \o SplitPath(s, 1, <<>>), <<>>)

\* filepath.Abs(s)
Abs(cwd, s) == RenderPath(AbsSegs(cwd, s))

\* strings.HasPrefix
HasPrefix(s, p) == Len(p) <= Len(s) /\ SubSeq(s, 1, Len(p)) = p

\* main of the CLI, lines 33-54, for a source that exists: the exit status
\* of the path validation (0: main goes on) and whether os.MkdirAll(dst)
\* and the walk are reached
CliValidate(cwd, argSrc, argDst) ==
    LET absSrc == Abs(cwd, argSrc)
        absDst == Abs(cwd, argDst)
    IN  IF absSrc = absDst THEN [exit |-> 1, mkdir |-> FALSE]
        ELSE IF HasPrefix(absDst, absSrc \o <<"/">>)
             THEN [exit |-> 1, mkdir |-> FALSE]
             ELSE [exit |-> 0, mkdir |-> TRUE]

\* the arguments the CLI is started with
CliArgs ==
    { <<"/">>,
      <<"/","a">>,
      <<"/","a","/">>,
      <<"/","a","/","b">>,
      <<"/","a","b">>,
      <<"/","a","/",".",".","/","a","/","b">>,
      <<"/","a","/",".","/","b","/","c">>,
      <<"a">>,
      <<"a","/","b">>,
      <<".">>,
      <<".",".">>,
      <<".","/","a">>,
      <<"/","w","/","a">>,
      <<"/","w">> }

\* the working directories it is started in: the root and /w
CliCwds == {<<>>, << <<"w">> >>}

CallCliValidate ==
    /\ fn = NoCall
    /\ \E cwd \in CliCwds, argSrc \in CliArgs, argDst \in CliArgs :
        fn' = [op |-> "CliValidate",
               in |-> [cwd |-> cwd, src |-> argSrc, dst |-> argDst],
               out |-> CliValidate(cwd, argSrc, argDst), n |-> 0]
    /\ FsQuiet

NextStr ==
    \/ CallSanitizeFolderName \/ CallCategoryLabel \/ CallDetectSource
    \/ CallGetFileInfo \/ CallErrorReport \/ CallCliValidate
    \/ FnReturn

SpecStr == InitStr /\ [][NextStr]_vars

\* C20: every FileInfo that GetFileInfo returns without error has Year
\* equal to the 4-digit decimal year of its Date, Month equal to the
\* two-digit zero-padded month (01..12) of its Date, and non-empty Device
\* and Source labels, whatever the embedded metadata holds or lacks.
C20_YearMonthLabels ==
    (fn.op = "GetFileInfo" /\ ~fn.out.err) =>
        LET info == fn.out
        IN  /\ Len(info.Year) = 4
            /\ \A i \in 1..Len(info.Year) : IsDigit(info.Year[i])
            /\ Atoi(info.Year) = info.Date.year
            /\ Len(info.Month) = 2
            /\ \A i \in 1..Len(info.Month) : IsDigit(info.Month[i])
            /\ Atoi(info.Month) = info.Date.month
            /\ info.Date.month \in 1..12
            /\ info.Device # <<>>
            /\ info.Source # <<>>


RECURSIVE MovedSizes(_)
\* the bytes of the files of r that were relocated
MovedSizes(r) ==
    IF r = <<>> THEN 0
    ELSE (IF Head(r).Error = "moved" THEN Head(r).Size ELSE 0)
         + MovedSizes(Tail(r))

\* C21: the batch result tells moved files from duplicate-skips: a file
\* skipped as a duplicate is not counted as moved; the success count and
\* the bytes that the report and the lifetime statistics take up count
\* only the files that were relocated to the destination.
C21_DuplicatesNotCountedAsMoved ==
    (prog = "gui" /\ wpc \in {"finish", "report"}) =>
        /\ successCount = Cardinality({i \in 1..Len(res) : res[i].Error = "moved"})
        /\ SumSizes(res) = MovedSizes(res)


\* C23: when stat-ing or hashing either file fails during the duplicate
\* check of a colliding candidate, the failure is surfaced as an error and
\* the candidate is neither skipped as a duplicate nor moved to a
\* conflict-suffixed path: a first step of MoveFile or of the CLI callback
\* in which an I/O operation fails while a file is at the computed
\* destination ends the call with an error.
C23_DuplicateCheckFailureSurfaced ==
    [][ (StartStep /\ Exists(fs, bulk.slot) /\ faults' = faults + 1)
            => /\ wpc' = "record" \/ cpc' = "c_next"
               /\ ~MoveOk(outcome')
               /\ dst' = NoPath ]_vars


\* ec := total - successCount; if ec < 0 { ec = 0 }
ErrorCount(total, sc) == IF total - sc < 0 THEN 0 ELSE total - sc

\* C25: the number of errors reported at the end of a GUI batch is the
\* number of files whose organizer.MoveFile call returned an error; files
\* that were never started because the batch was cancelled are not
\* reported as errors.
C25_ErrorsAreFailedCalls ==
    (prog = "gui" /\ wpc = "report") =>
        ErrorCount(Len(wl), successCount)
            = Cardinality({i \in 1..Len(res) : ~res[i].Success})


\* C26: the failure report shown after a GUI batch lists at most
\* MaxErrorsDisplay individual failure lines, whatever the number of
\* failed files; further failures are replaced by one pointer to the log.
C26_ReportCapped ==
    fn.op = "ErrorReport" =>
        LET lines == {i \in 1..Len(fn.out) : fn.out[i] = "- file: error"}
            pointers == {i \in 1..Len(fn.out) : fn.out[i] = "...see log"}
        IN  /\ Cardinality(lines) <= MaxErrorsDisplay
            /\ Cardinality(lines) = (IF fn.n <= MaxErrorsDisplay THEN fn.n
                                     ELSE MaxErrorsDisplay)
            /\ Cardinality(pointers) = (IF fn.n > MaxErrorsDisplay THEN 1 ELSE 0)


\* C22: the CLI touches no file and creates no directory when its path
\* validation fails: if source and destination resolve to the same
\* absolute path, or the destination lies inside the source, it exits with
\* a non-zero status before the destination is created and before any
\* file is walked or moved.
C22_CliValidationStops ==
    fn.op = "CliValidate" =>
        LET a == AbsSegs(fn.in.cwd, fn.in.src)
            d == AbsSegs(fn.in.cwd, fn.in.dst)
            same == a = d
            inside == Len(d) > Len(a) /\ SubSeq(d, 1, Len(a)) = a
        IN  (same \/ inside) => (fn.out.exit # 0 /\ ~fn.out.mkdir)

(***************************************************************************)
(* The drop handler on lists of paths: regular files, a symbolic link,     *)
(* files inside the destination, an unsafe path and an unsupported file,   *)
(* dropped on a queue that is short or close to MaxFilesLimit.             *)
(***************************************************************************)
\* drops are followed while the queue is this short, or close to the limit
MaxQueued == 1
\* paths in one drop
MaxDrop == 2

\* a symbolic link in src/A that points to SrcF1
LinkF == MkPath(<<"src", "A">>, "LNK_0001", <<>>, ".jpg")
Symlinks == {LinkF}
\* a file directly in the destination root
DestTop == MkPath(<<TargetRoot>>, "IMG_0002", <<>>, ".jpg")
\* a file two folders below the destination root
DestDeep == MkPath(<<TargetRoot, "2022", "05">>, "IMG_0003", <<>>, ".jpg")
\* a path with a ".." segment
UnsafeF == MkPath(<<"src", "..", "src", "A">>, "IMG_0001", <<>>, ".jpg")
\* a file without a supported extension
TextF == MkPath(<<"src", "A">>, "notes", <<>>, ".txt")

DropPaths == {SrcF1, SrcF2, LinkF, DestDeep, DestTop, UnsafeF, TextF}

\* the argument of HandleDrop: ps []string
DropLists == UNION { [1..k -> DropPaths] : k \in 1..MaxDrop }

\* os.Stat follows a link: the link shows the content of its target
DropFs == [p \in DropPaths |-> IF p \in {DestDeep, DestTop} THEN ContentB
                                ELSE ContentA]

\* the queue after n drops of SrcF1
Queue(n) == [i \in 1..n |-> GetFileInfo(DropFs, SrcF1).info]

\* the GUI is up; the target folder is unset or restored from the saved
\* configuration (line 277); the queue is empty or one short of the limit
InitDrop ==
    /\ prog = "gui"
    /\ fs = DropFs
    /\ bulk = [slot |-> SlotGui, n |-> 0]
    /\ faults = 0
    /\ batches = 0
    /\ up = TRUE
    /\ TargetFolder \in {"", TargetRoot}
    /\ \E n \in {0, MaxFilesLimit - 1} :
        FilesToMove = Queue(n) /\ FileCount = n
    /\ isProcessing = FALSE
    /\ cancelled = TRUE
    /\ stats = [TotalFiles |-> 0, TotalSize |-> 0, TotalOrganized |-> 0]
    /\ wpc = "idle"
    /\ wl = <<>>
    /\ idx = 0
    /\ successCount = 0
    /\ res = <<>>
    /\ cur = NoInfo
    /\ dst = NoPath
    /\ sh = -1
    /\ viaCopy = FALSE
    /\ outcome = ""
    /\ cpc = "off"
    /\ todo = <<>>
    /\ success = 0
    /\ errors = 0
    /\ folderChecked = FALSE
    /\ fn = NoCall
    /\ srcPre = NoFile
    /\ dstPre = NoFile
    /\ stopped = FALSE
    /\ stray = NoStray
    /\ processed1 = {}

\* LumeUI.HandleDrop, the whole handler on a list of dropped paths
HandleDropPaths ==
    /\ prog = "gui" /\ up /\ DropAllowed
    /\ FileCount <= MaxQueued \/ MaxFilesLimit - FileCount <= MaxDrop
    /\ \E ps \in DropLists :
        LET r == DropLoop(fs, ps, 1, FilesToMove, FileCount, TargetFolder)
        IN  /\ FilesToMove' = r.queue
            /\ FileCount' = r.count
    /\ UNCHANGED << prog, fs, bulk, faults, batches, up, TargetFolder,
                    isProcessing, cancelled, stats, wpc, wl, idx, successCount,
                    res, cliVars, moveVars, fn, folderChecked, stopped, stray,
                    processed1 >>

NextDrop == HandleDropPaths \/ SelectFolder

SpecDrop == InitDrop /\ [][NextDrop]_vars

\* C24: no queued candidate is a symbolic link, and none lies inside the
\* destination root, at any depth
C24_NoLinkNoDestinationFile ==
    prog = "gui" =>
        \A i \in 1..Len(FilesToMove) :
            /\ FilesToMove[i].Path \notin Symlinks
            /\ ~(TargetFolder = TargetRoot /\ UnderDest(FilesToMove[i].Path))

\* C28: FileCount is the length of the queue and stays within MaxFilesLimit
C28_CountIsQueueLength ==
    prog = "gui" => FileCount = Len(FilesToMove) /\ FileCount <= MaxFilesLimit

\* a drop filled the queue up to the limit
C28_Witness ==
    /\ prog = "gui" /\ FileCount = MaxFilesLimit
    /\ FilesToMove[FileCount].Path = SrcF2

\* C27: while a GUI batch is processing the handlers leave the queue, the
\* count and the target folder alone and start no worker; the one worker
\* works on the snapshot of the queue it took at its start
C27_HandlersIdleWhileProcessing ==
    [][ (prog = "gui" /\ isProcessing /\ isProcessing')
            => /\ UNCHANGED << FilesToMove, FileCount, TargetFolder >>
               /\ wpc' = "snap" => wpc = "snap"
               /\ (wpc = "snap" /\ wpc' # "snap") => wl' = FilesToMove
               /\ wpc # "snap" => (wl' = wl /\ wl = FilesToMove) ]_vars

\* a batch is at work on a queue that a drop of the other file would extend
C27_Witness ==
    /\ prog = "gui" /\ isProcessing /\ wpc = "record"
    /\ Len(FilesToMove) = 1 /\ wl = FilesToMove
    /\ TargetFolder = TargetRoot

(***************************************************************************)
(* Termination of a batch.  The goroutine is scheduled as long as it has a *)
(* step to take, every file operation returns, and the UI thread runs the  *)
(* callback handed to Synchronize.                                         *)
(***************************************************************************)
\* the positions of the batch worker goroutine
WorkerPcs == {"idle", "snap", "loop", "mv_start", "am_hash", "am_rename",
              "am_copy", "am_copy2", "am_remove", "am_verify", "record",
              "finish", "report"}

\* the batch worker goroutine goes on to its next position: the statement
\* or file operation it stands at returns
WorkerAdvances ==
    /\ prog = "gui" /\ up /\ wpc # "idle"
    /\ wpc' \in WorkerPcs \ {wpc}

\* one run of the GUI process, from its start to its end
InitLive == Init /\ prog = "gui"

NextLive ==
    \/ SelectFolder \/ HandleDrop \/ StartOrganizing \/ CancelOrganizing
    \/ ShutdownSignal
    \/ WorkerSnapshot \/ WorkerSelect \/ MoveStart \/ AmHash \/ AmRename
    \/ AmCopy \/ AmCopyRest \/ AmRemove \/ AmVerify \/ WorkerRecord
    \/ WorkerFinish \/ WorkerReport \/ StorageFault

SpecLive == InitLive /\ [][NextLive]_vars /\ WF_wpc(WorkerAdvances)

====
